---- MODULE Spec2Model ----
(***************************************************************************)
(* PTO Buddy (src/server.js): an Express REST API over a SQLite store      *)
(* (better-sqlite3) in which employees donate paid-time-off hours to       *)
(* support requests.                                                       *)
(*                                                                         *)
(* The store is the four tables of the schema (server.js 19-70).  A row is *)
(* a record carrying the columns some handler's guard or write depends on: *)
(*   companies        allow_cross_company                                  *)
(*   users            company_id, available_pto_hours                      *)
(*   support_requests user_id, hours_needed, hours_received, status        *)
(*   donations        donor_id, request_id, hours, message                 *)
(* A table is a function from the AUTOINCREMENT id to the row; donations,  *)
(* from which nothing is ever deleted, is the sequence of its rows.  The   *)
(* NULL of company_id and of message is the value Null.                    *)
(*                                                                         *)
(* Request bodies are JSON; the inputs drawn here are integers, and 0      *)
(* stands for every falsy value of a numeric field (0 or absent).  An      *)
(* optional field of a PUT body is a set: {} when absent, {v} when given.  *)
(*                                                                         *)
(* server.js holds two copies of the program (1-909 and 911-1596); the     *)
(* model follows the first, which is the later and larger one.             *)
(***************************************************************************)
EXTENDS Integers, Sequences, FiniteSets, TLC

\* ---------------------------------------------------------------- bounds
MaxUsers == 2
MaxCompanies == 1
MaxRequests == 2
MaxDonations == 2
MaxHours == 2

VARIABLES
    companies,   \* table companies
    users,       \* table users
    requests,    \* table support_requests
    donations,   \* table donations
    userSeq,     \* sqlite_sequence of users: the largest id ever given to a user
    res,         \* the response to the request handled last
    calls,       \* concurrent POST /api/donations requests and their positions
    running      \* the call whose handler holds the JavaScript thread (0: none)

vars == <<companies, users, requests, donations, userSeq, res, calls, running>>

Null == 0

\* JavaScript's !v for the numeric inputs of the model
Falsy(v) == v = 0

\* v || d
OrElse(v, d) == IF Falsy(v) THEN d ELSE v

\* the values drawn for hours: negative, falsy, and 1..MaxHours
HoursInputs == (-1)..MaxHours
\* the values drawn for ptoHours, available_pto_hours and hoursNeeded
AmountInputs == {-1, 0, MaxHours}
UserIdInputs == 0..MaxUsers
RequestIdInputs == 0..MaxRequests
CompanyIdInputs == 0..MaxCompanies
\* the owner named by a new support request: none, or the first user
OwnerInputs == {0, 1}
\* message: absent, or a text
MessageInputs == {0, 7}

\* an optional body field over the set S
Optional(S) == {{}} \cup {{v} : v \in S}

\* the tables behind the handle db, as one value
DB == [companies |-> companies, users |-> users, requests |-> requests, donations |-> donations]

\* the mutant of NextId: every INSERT replaces the row with id 1
NextIdFirst(table) == 1

\* lastInsertRowid of an AUTOINCREMENT table from which no row was deleted
\* (companies, support_requests); the ids of users come from userSeq
NextId(table) == Cardinality(DOMAIN table) + 1

Extend(table, id, row) == [i \in DOMAIN table \cup {id} |-> IF i = id THEN row ELSE table[i]]

\* ------------------------------------------------------- POST /api/donations

insertDonation(db, donorId, requestId, hours, message) ==
    [db EXCEPT !.donations = Append(@, [donor_id |-> donorId, request_id |-> requestId,
                                         hours |-> hours, message |-> message])]

\* the mutant of updateDonorPTO: the UPDATE has no WHERE clause
updateEveryDonorPTO(db, hours, donorId) ==
    [db EXCEPT !.users = [u \in DOMAIN db.users |->
                             [db.users[u] EXCEPT !.available_pto_hours = @ - hours]]]

updateDonorPTO(db, hours, donorId) ==
    [db EXCEPT !.users[donorId].available_pto_hours = @ - hours]

\* the mutant of updateRequestHours: hours_received is overwritten
updateRequestHoursOverwrite(db, hours, requestId) ==
    [db EXCEPT !.requests[requestId].hours_received = hours]

\* the mutant of updateRequestHours: hours_received stops at hours_needed
updateRequestHoursClamped(db, hours, requestId) ==
    [db EXCEPT !.requests[requestId].hours_received =
                   IF @ + hours > db.requests[requestId].hours_needed
                   THEN db.requests[requestId].hours_needed
                   ELSE @ + hours]

updateRequestHours(db, hours, requestId) ==
    [db EXCEPT !.requests[requestId].hours_received = @ + hours]

\* the mutant of FullyFunded: > for >=
FullyFundedStrict(updatedRequest) == updatedRequest.hours_received > updatedRequest.hours_needed

FullyFunded(updatedRequest) == updatedRequest.hours_received >= updatedRequest.hours_needed

\* the mutant of markFulfilled: the status written is 'closed'
markClosed(db, requestId) ==
    IF FullyFunded(db.requests[requestId])
    THEN [db EXCEPT !.requests[requestId].status = "closed"]
    ELSE db

markFulfilled(db, requestId) ==
    IF FullyFunded(db.requests[requestId])
    THEN [db EXCEPT !.requests[requestId].status = "fulfilled"]
    ELSE db

\* the store after the first k statements of the transaction function
TxnSteps == 4
TxnAfter(db, donorId, requestId, hours, message, k) ==
    LET s1 == insertDonation(db, donorId, requestId, hours, OrElse(message, Null))
        s2 == updateDonorPTO(s1, hours, donorId)
        s3 == updateRequestHours(s2, hours, requestId)
        s4 == markFulfilled(s3, requestId)
    IN  CASE k = 0 -> db
          [] k = 1 -> s1
          [] k = 2 -> s2
          [] k = 3 -> s3
          [] OTHER -> s4

\* the mutant of transaction: the statements run outside any transaction
transactionNoRollback(before, partial, after, failed) == IF failed THEN partial ELSE after

\* db.transaction(fn)(): BEGIN, fn, COMMIT; a throw inside fn is answered by
\* ROLLBACK and thrown again
transaction(before, partial, after, failed) == IF failed THEN before ELSE after

Response(status, error, db) == [status |-> status, error |-> error, db |-> db]

\* the mutant of DonorCheck: the balance is not compared
DonorCheckExists(db, donorId, hours) == donorId \in DOMAIN db.users

\* the donor row is found and available_pto_hours < hours is false
DonorCheck(db, donorId, hours) ==
    /\ donorId \in DOMAIN db.users
    /\ ~(db.users[donorId].available_pto_hours < hours)

\* the mutant of RequestCheck: the status is not part of the WHERE clause
RequestCheckAnyStatus(db, requestId) == requestId \in DOMAIN db.requests

\* SELECT * FROM support_requests WHERE id = ? AND status = 'active' finds a row
RequestCheck(db, requestId) ==
    /\ requestId \in DOMAIN db.requests
    /\ db.requests[requestId].status = "active"

\* the mutant of PreCheck: the request is looked up before the donor
PreCheckRequestFirst(db, donorId, requestId, hours) ==
    IF Falsy(donorId) \/ Falsy(requestId) \/ Falsy(hours)
    THEN Response(400, "Missing required fields", db)
    ELSE IF ~RequestCheck(db, requestId)
    THEN Response(404, "Support request not found or closed", db)
    ELSE IF ~DonorCheck(db, donorId, hours)
    THEN Response(400, "Insufficient PTO hours available", db)
    ELSE Response(0, "", db)

\* the mutant of PreCheck: the donor is read before the body is validated
PreCheckLookupFirst(db, donorId, requestId, hours) ==
    IF ~DonorCheck(db, donorId, hours)
    THEN Response(400, "Insufficient PTO hours available", db)
    ELSE IF Falsy(donorId) \/ Falsy(requestId) \/ Falsy(hours)
    THEN Response(400, "Missing required fields", db)
    ELSE IF ~RequestCheck(db, requestId)
    THEN Response(404, "Support request not found or closed", db)
    ELSE Response(0, "", db)

\* the mutant of PreCheck: a donor gives to another company only when the
\* donor's company allows it
PreCheckSameCompany(db, donorId, requestId, hours) ==
    IF Falsy(donorId) \/ Falsy(requestId) \/ Falsy(hours)
    THEN Response(400, "Missing required fields", db)
    ELSE IF ~DonorCheck(db, donorId, hours)
    THEN Response(400, "Insufficient PTO hours available", db)
    ELSE IF ~RequestCheck(db, requestId)
    THEN Response(404, "Support request not found or closed", db)
    ELSE LET from == db.users[donorId].company_id
             to == db.users[db.requests[requestId].user_id].company_id
         IN  IF from # to /\ from # Null /\ db.companies[from].allow_cross_company = 0
             THEN Response(403, "Cross-company donations are not allowed", db)
             ELSE Response(0, "", db)

\* lines 742-756: the response of an early return, or status 0 to go on
PreCheck(db, donorId, requestId, hours) ==
    IF Falsy(donorId) \/ Falsy(requestId) \/ Falsy(hours)
    THEN Response(400, "Missing required fields", db)
    ELSE IF ~DonorCheck(db, donorId, hours)
    THEN Response(400, "Insufficient PTO hours available", db)
    ELSE IF ~RequestCheck(db, requestId)
    THEN Response(404, "Support request not found or closed", db)
    ELSE Response(0, "", db)

\* lines 775-792: failAt = k > 0 is a store error thrown by statement k of the
\* transaction function (the first k - 1 statements have run); failAt = 0 is none
RunTransaction(db, donorId, requestId, hours, message, failAt) ==
    LET partial == TxnAfter(db, donorId, requestId, hours, message, IF failAt = 0 THEN 0 ELSE failAt - 1)
        after == TxnAfter(db, donorId, requestId, hours, message, TxnSteps)
        final == transaction(db, partial, after, failAt # 0)
    IN  IF failAt # 0
        THEN Response(500, "Donation failed", final)
        ELSE Response(201, "Donation successful", final)

recordDonation(db, donorId, requestId, hours, message, failAt) ==
    LET pre == PreCheck(db, donorId, requestId, hours)
    IN  IF pre.status # 0 THEN pre
        ELSE RunTransaction(db, donorId, requestId, hours, message, failAt)

Responded(op, status, error) == [op |-> op, status |-> status, error |-> error]

\* POST /api/donations: the handler is one synchronous function, so it runs
\* from its first line to its response with no other handler in between.
\* failAt is read by the transaction only.
Donate(donorId, requestId, hours, message) ==
    \E failAt \in 0..TxnSteps :
        LET r == recordDonation(DB, donorId, requestId, hours, message, failAt)
        IN  /\ PreCheck(DB, donorId, requestId, hours).status = 0 \/ failAt = 0
            /\ Len(r.db.donations) <= MaxDonations
            /\ users' = r.db.users
            /\ requests' = r.db.requests
            /\ donations' = r.db.donations
            /\ res' = Responded("donate", r.status, r.error)
            /\ UNCHANGED <<companies, userSeq, calls, running>>

\* The handlers below return early, before any write, when a check fails or
\* a statement throws; such a request leaves the store as it was and is no
\* step of the model.  Each action is the request that reaches its write.

\* ------------------------------------------------------- POST /api/requests

\* FOREIGN KEY (user_id) REFERENCES users(id): better-sqlite3 opens the
\* database with foreign keys enforced, so the INSERT throws for a missing user
CreateRequest(userId, hoursNeeded) ==
    /\ Cardinality(DOMAIN requests) < MaxRequests
    /\ ~(Falsy(userId) \/ Falsy(hoursNeeded))
    /\ userId \in DOMAIN users
    /\ requests' = Extend(requests, NextId(requests),
                          [user_id |-> userId, hours_needed |-> hoursNeeded,
                           hours_received |-> 0, status |-> "active"])
    /\ res' = Responded("createRequest", 201, "Support request created")
    /\ UNCHANGED <<companies, users, donations, userSeq, calls, running>>

\* ------------------------------------------------------- POST /api/register

\* The INSERT of lines 487-499, for a body that names every required field
\* and an email and username no user has (lines 458-466), and whose
\* registrationType is not 'company'.
\* FOREIGN KEY (company_id) REFERENCES companies(id).
Register(ptoHours, companyId) ==
    /\ userSeq < MaxUsers
    /\ OrElse(companyId, Null) # Null => companyId \in DOMAIN companies
    /\ users' = Extend(users, userSeq + 1,
                       [company_id |-> OrElse(companyId, Null),
                        available_pto_hours |-> OrElse(ptoHours, 0)])
    /\ userSeq' = userSeq + 1
    /\ res' = Responded("register", 201, "Registration successful")
    /\ UNCHANGED <<companies, requests, donations, calls, running>>

\* ------------------------------------------------------- PUT /api/users/:id

\* company_id and available_pto_hours are optional fields of the body (the
\* other six columns it may name are not in the model).  An UPDATE that
\* matches no row, or that writes the values the row has, changes nothing.
UpdateProfile(userId, company_id, available_pto_hours) ==
    /\ ~(company_id = {} /\ available_pto_hours = {})
    /\ userId \in DOMAIN users
    /\ \A c \in company_id : c # Null => c \in DOMAIN companies
    /\ users' = [users EXCEPT ![userId] =
                    [company_id |-> IF company_id = {} THEN @.company_id
                                    ELSE CHOOSE c \in company_id : TRUE,
                     available_pto_hours |-> IF available_pto_hours = {} THEN @.available_pto_hours
                                             ELSE CHOOSE h \in available_pto_hours : TRUE]]
    /\ res' = Responded("updateProfile", 200, "Profile updated")
    /\ UNCHANGED <<companies, requests, donations, userSeq, calls, running>>

\* ------------------------------------------------------- the program

Init ==
    /\ companies = <<>>
    /\ users = <<>>
    /\ requests = <<>>
    /\ donations = <<>>
    /\ userSeq = 0
    /\ res = Responded("none", 0, "")
    /\ calls = <<>>
    /\ running = 0

\* Requests arrive one at a time, each with any body.  The donations of this
\* specification all carry the text message.
Next ==
    \/ \E p \in AmountInputs, c \in CompanyIdInputs : Register(p, c)
    \/ \E u \in UserIdInputs, c \in Optional(CompanyIdInputs), h \in Optional(AmountInputs) :
          UpdateProfile(u, c, h)
    \/ \E u \in OwnerInputs, h \in AmountInputs : CreateRequest(u, h)
    \/ \E d \in UserIdInputs, r \in RequestIdInputs, h \in HoursInputs,
          m \in {x \in MessageInputs : ~Falsy(x)} : Donate(d, r, h, m)

Spec == Init /\ [][Next]_vars

\* ------------------------------------------- concurrent POST /api/donations

\* Two donation requests are in flight at once.  Node runs one handler at a
\* time and the handler of POST /api/donations never awaits, so a call that
\* has passed lines 742-756 (StartCall) holds the thread until its
\* transaction has committed (CommitCall).  The store raises no error here.
CallIds == {1, 2}
ConcBalances == {10, 20, 40}
ConcNeeded == {20, 40}
ConcHours == {10, 20}

User(company_id, available_pto_hours) ==
    [company_id |-> company_id, available_pto_hours |-> available_pto_hours]

InitConcurrent ==
    /\ companies = <<>>
    /\ \E b1 \in ConcBalances, b2 \in ConcBalances :
          users = <<User(Null, b1), User(Null, b2), User(Null, 0)>>
    /\ \E n \in ConcNeeded :
          requests = <<[user_id |-> 3, hours_needed |-> n, hours_received |-> 0, status |-> "active"]>>
    /\ donations = <<>>
    /\ userSeq = 3
    /\ res = Responded("none", 0, "")
    /\ calls \in [CallIds -> [donorId : {1, 2}, requestId : {1}, hours : ConcHours,
                              message : MessageInputs, pc : {"pending"}, status : {0}]]
    /\ running = 0

\* the mutant of CanStart: a handler is entered while another one is between
\* its checks and its transaction
CanStartAnyTime(c) == TRUE

\* the handler is entered only when no other handler is running
CanStart(c) == running = 0

StartCall(c) ==
    /\ calls[c].pc = "pending"
    /\ CanStart(c)
    /\ LET pre == PreCheck(DB, calls[c].donorId, calls[c].requestId, calls[c].hours)
       IN  IF pre.status # 0
           THEN /\ calls' = [calls EXCEPT ![c].pc = "done", ![c].status = pre.status]
                /\ running' = 0
           ELSE /\ calls' = [calls EXCEPT ![c].pc = "checked"]
                /\ running' = c
    /\ UNCHANGED <<companies, users, requests, donations, userSeq, res>>

\* the rest of the handler that StartCall began: it follows the checks with
\* no yield, whoever else the scheduler let in
CommitCall(c) ==
    /\ calls[c].pc = "checked"
    /\ LET r == RunTransaction(DB, calls[c].donorId, calls[c].requestId, calls[c].hours,
                               calls[c].message, 0)
       IN  /\ users' = r.db.users
           /\ requests' = r.db.requests
           /\ donations' = r.db.donations
           /\ calls' = [calls EXCEPT ![c].pc = "done", ![c].status = r.status]
    /\ running' = 0
    /\ UNCHANGED <<companies, userSeq, res>>

NextConcurrent ==
    \/ \E c \in CallIds : StartCall(c)
    \/ \E c \in CallIds : CommitCall(c)

SpecConcurrent == InitConcurrent /\ [][NextConcurrent]_vars

\* ------------------------------------------------------------ the claims

RECURSIVE SumHours(_, _)
\* SELECT COALESCE(SUM(hours), 0) FROM donations WHERE request_id = ?
SumHours(rows, requestId) ==
    IF rows = <<>> THEN 0
    ELSE (IF Head(rows).request_id = requestId THEN Head(rows).hours ELSE 0)
         + SumHours(Tail(rows), requestId)

\* the donation rows that reference a request
DonationsOn(rows, requestId) == SelectSeq(rows, LAMBDA d : d.request_id = requestId)

Fulfilled(r) == r \in DOMAIN requests /\ requests[r].status = "fulfilled"

Active(r) == r \in DOMAIN requests /\ requests[r].status = "active"

\* C1: in every reachable state the stored hours_received of each support
\* request equals the sum of hours over the donation rows that reference it.
C1_LedgerConsistency ==
    \A r \in DOMAIN requests : requests[r].hours_received = SumHours(donations, r)

\* two donations were recorded on one request, the second one just now
C1_Witness ==
    /\ res.op = "donate" /\ res.status = 201
    /\ \E r \in DOMAIN requests :
          /\ Len(DonationsOn(donations, r)) = 2
          /\ requests[r].hours_received = 3

\* C2 (as claimed): every user's available_pto_hours is >= 0 in every
\* reachable state.
C2_NonNegativeBalance ==
    \A u \in DOMAIN users : users[u].available_pto_hours >= 0

\* C3: a POST /api/donations that does not answer 201 (validation error,
\* insufficient balance, request not found, or a store error thrown by any
\* statement of the transaction) leaves users, support_requests and
\* donations exactly as they were before the call.
C3_AtomicOnFailure ==
    [][(res'.op = "donate" /\ res'.status # 201)
          => UNCHANGED <<users, requests, donations>>]_vars

\* a store error was thrown inside the transaction of a donation that had
\* passed every check
C3_Witness ==
    /\ res.op = "donate" /\ res.status = 500
    /\ \E u \in DOMAIN users : users[u].available_pto_hours > 0
    /\ \E r \in DOMAIN requests : Active(r)

\* C4 (as claimed): in every reachable state a support request is fulfilled
\* if and only if hours_received >= hours_needed.
C4_FulfilledIffFunded ==
    \A r \in DOMAIN requests :
        requests[r].status = "fulfilled"
            <=> requests[r].hours_received >= requests[r].hours_needed

\* C5: the status of a support request is active or fulfilled, it is active
\* when the request is created, and a fulfilled request stays fulfilled.
C5_StatusMachine ==
    [][\A r \in DOMAIN requests' :
          /\ requests'[r].status \in {"active", "fulfilled"}
          /\ r \notin DOMAIN requests => requests'[r].status = "active"
          /\ Fulfilled(r) => requests'[r].status = "fulfilled"]_vars
    /\ [][DOMAIN requests \subseteq DOMAIN requests']_vars

\* a request is fulfilled and a donation to another request succeeded later
C5_Witness ==
    /\ res.op = "donate" /\ res.status = 201
    /\ Len(donations) = 2
    /\ Fulfilled(donations[1].request_id)
    /\ donations[2].request_id # donations[1].request_id

\* C6: once a support request is fulfilled, no step changes its
\* hours_received or status or adds a donation row that references it.
C6_FrozenWhenFulfilled ==
    [][\A r \in DOMAIN requests :
          Fulfilled(r) =>
              /\ r \in DOMAIN requests'
              /\ requests'[r] = requests[r]
              /\ DonationsOn(donations', r) = DonationsOn(donations, r)]_vars

\* a donation call was refused with 404 while every request is fulfilled
C6_Witness ==
    /\ res.op = "donate" /\ res.status = 404
    /\ DOMAIN requests # {}
    /\ \A r \in DOMAIN requests : Fulfilled(r)
    /\ \E u \in DOMAIN users : users[u].available_pto_hours > 0

\* the response of the handler to a call in the current store
Outcome(donorId, requestId, hours, message, failAt) ==
    recordDonation(DB, donorId, requestId, hours, message, failAt)

\* every amount in the store is one the data model allows
AmountsInRange ==
    /\ \A u \in DOMAIN users : users[u].available_pto_hours >= 0
    /\ \A r \in DOMAIN requests : requests[r].hours_needed >= 1
    /\ \A i \in DOMAIN donations : donations[i].hours >= 1

\* C7 (as claimed): a call that names a fulfilled request is answered 404
\* 'Support request not found or closed', for every existing donor and every
\* positive hours value (stated for the stores that hold no negative amount,
\* where it fails as well).
C7_AlwaysRequestNotFound ==
    \A r \in DOMAIN requests, d \in DOMAIN users, h \in 1..MaxHours, m \in MessageInputs :
        (AmountsInRange /\ Fulfilled(r)) =>
            /\ Outcome(d, r, h, m, 0).status = 404
            /\ Outcome(d, r, h, m, 0).error = "Support request not found or closed"

\* C7 (amended): a call that names a fulfilled request fails and changes
\* nothing; it is answered 404 'Support request not found or closed' exactly
\* when donorId and hours are given and the donor exists with
\* available_pto_hours >= hours, and 400 otherwise (the donor check comes
\* first).
C7_FulfilledRequestRefused ==
    \A r \in DOMAIN requests, d \in UserIdInputs, h \in HoursInputs,
       m \in MessageInputs, f \in 0..TxnSteps :
        Fulfilled(r) =>
            LET out == Outcome(d, r, h, m, f)
                donorOk == /\ ~Falsy(d) /\ ~Falsy(h)
                           /\ d \in DOMAIN users
                           /\ users[d].available_pto_hours >= h
            IN  /\ out.db = DB
                /\ donorOk => out.status = 404 /\ out.error = "Support request not found or closed"
                /\ ~donorOk => out.status = 400

\* the only request is fulfilled, and a call was refused for the balance of
\* its donor, who cannot give MaxHours
C7_Witness ==
    /\ res.op = "donate" /\ res.error = "Insufficient PTO hours available"
    /\ DOMAIN requests = {1} /\ Fulfilled(1)
    /\ \E u \in DOMAIN users : users[u].available_pto_hours < MaxHours

\* C8: for an active request and a donor with enough balance, a successful
\* donation of exactly hours_needed - hours_received hours leaves the request
\* fulfilled when the call returns, and one of one hour less leaves it active.
C8_ThresholdBoundary ==
    \A r \in DOMAIN requests, d \in DOMAIN users, h \in HoursInputs, m \in MessageInputs :
        LET out == Outcome(d, r, h, m, 0)
            remaining == requests[r].hours_needed - requests[r].hours_received
        IN  (Active(r) /\ out.status = 201) =>
                /\ h = remaining => out.db.requests[r].status = "fulfilled"
                /\ h = remaining - 1 => out.db.requests[r].status = "active"

\* a request needing MaxHours received one hour less than it needed, stayed
\* active, and was fulfilled by a donation of exactly the hour remaining
C8_Witness ==
    /\ res.op = "donate" /\ res.status = 201
    /\ \E r \in DOMAIN requests :
          /\ requests[r].hours_needed = MaxHours
          /\ requests[r].hours_received = MaxHours
          /\ Fulfilled(r)
          /\ Len(DonationsOn(donations, r)) = 2
          /\ DonationsOn(donations, r)[1].hours = MaxHours - 1
          /\ DonationsOn(donations, r)[2].hours = 1

\* C9: a call that names a donor, a request and hours, with hours greater
\* than the donor's available_pto_hours, is answered 400 'Insufficient PTO
\* hours available' and leaves the store unchanged.
C9_InsufficientBalance ==
    \A d \in DOMAIN users, r \in RequestIdInputs, h \in HoursInputs,
       m \in MessageInputs, f \in 0..TxnSteps :
        (~Falsy(r) /\ ~Falsy(h) /\ h > users[d].available_pto_hours) =>
            LET out == Outcome(d, r, h, m, f)
            IN  /\ out.status = 400
                /\ out.error = "Insufficient PTO hours available"
                /\ out.db = DB

\* a call was refused for the balance while a request was open to donations
C9_Witness ==
    /\ res.op = "donate" /\ res.error = "Insufficient PTO hours available"
    /\ \E r \in DOMAIN requests : Active(r) /\ requests[r].hours_needed > 0
    /\ \A u \in DOMAIN users : users[u].available_pto_hours \in 0..(MaxHours - 1)
    /\ DOMAIN users # {}

AllDone == \A c \in CallIds : calls[c].pc = "done"

\* two different donors with 20 hours each donate 20 hours each to the one
\* active request, which needs 40 hours and has received none
C10_Scenario ==
    /\ calls[1].donorId # calls[2].donorId
    /\ \A c \in CallIds :
          /\ calls[c].pc = "pending"
          /\ calls[c].hours = 20
          /\ users[calls[c].donorId].available_pto_hours = 20
    /\ requests[1].hours_needed = 40
    /\ requests[1].hours_received = 0
    /\ Active(1)

C10_Outcome ==
    /\ \A c \in CallIds : calls[c].status = 201
    /\ requests[1].hours_received = 40
    /\ Fulfilled(1)
    /\ Len(donations) = 2
    /\ \A c \in CallIds : users[calls[c].donorId].available_pto_hours = 0

\* C10: from that scenario, in whatever order the two calls are handled,
\* both succeed and the final state has hours_received = 40, status
\* fulfilled, exactly two donation rows and both donor balances 0.
C10_ConcurrentDonations == C10_Scenario => [](AllDone => C10_Outcome)

\* both calls of the scenario are done
C10_Witness ==
    /\ AllDone
    /\ calls[1].donorId # calls[2].donorId
    /\ \A c \in CallIds : calls[c].hours = 20 /\ calls[c].status = 201
    /\ requests[1].hours_needed = 40
    /\ requests[1].hours_received = 40
    /\ Len(donations) = 2

\* ---------------------------------------------------------------- C11

\* a store of the concurrent specification before any call is handled
ConcStore(b1, b2, n) ==
    [companies |-> <<>>,
     users |-> <<User(Null, b1), User(Null, b2), User(Null, 0)>>,
     requests |-> <<[user_id |-> 3, hours_needed |-> n, hours_received |-> 0, status |-> "active"]>>,
     donations |-> <<>>]

\* the store and the two statuses after call first, then call second, each
\* handled alone from its first line to its response
SerialOutcome(db0, first, second) ==
    LET r1 == recordDonation(db0, calls[first].donorId, calls[first].requestId,
                             calls[first].hours, calls[first].message, 0)
        r2 == recordDonation(r1.db, calls[second].donorId, calls[second].requestId,
                             calls[second].hours, calls[second].message, 0)
    IN  /\ DB = r2.db
        /\ calls[first].status = r1.status
        /\ calls[second].status = r2.status

\* C11: whatever the interleaving of two concurrent donation calls on the same
\* request (and, for some, the same donor), the final store and the two
\* responses are those of the calls handled one after the other in some
\* order; two donations of one donor whose hours together exceed the balance
\* the donor started with never both succeed.
C11_SerializableEffect ==
    \A b1 \in ConcBalances, b2 \in ConcBalances, n \in ConcNeeded :
        (DB = ConcStore(b1, b2, n)) =>
            [](AllDone =>
                  /\ SerialOutcome(ConcStore(b1, b2, n), 1, 2)
                        \/ SerialOutcome(ConcStore(b1, b2, n), 2, 1)
                  /\ (/\ calls[1].donorId = calls[2].donorId
                      /\ calls[1].hours + calls[2].hours
                            > ConcStore(b1, b2, n).users[calls[1].donorId].available_pto_hours)
                        => ~(calls[1].status = 201 /\ calls[2].status = 201))

\* two calls of one donor, each within the balance and together beyond it,
\* are done: one succeeded and the other was refused for the balance
C11_Witness ==
    /\ AllDone
    /\ calls[1].donorId = calls[2].donorId
    /\ calls[1].hours = 10 /\ calls[2].hours = 10
    /\ {calls[1].status, calls[2].status} = {201, 400}
    /\ Len(donations) = 1
    /\ users[calls[1].donorId].available_pto_hours = 0

\* ---------------------------------------------------------------- C12

\* no balance is negative and every request needs at least one hour
EnteredAmountsInRange ==
    /\ \A u \in DOMAIN users : users[u].available_pto_hours >= 0
    /\ \A r \in DOMAIN requests : requests[r].hours_needed >= 1

\* the rows a step appends to donations
NewDonations == {i \in DOMAIN donations' : i \notin DOMAIN donations}

\* C12 (as claimed): every donation row that is stored has hours >= 1 and a
\* call with hours that is zero or negative changes nothing (stated for the
\* stores whose balances and hours_needed are in range, where it fails as
\* well).
C12_PositiveDonationHours ==
    [][EnteredAmountsInRange => \A i \in NewDonations : donations'[i].hours >= 1]_vars

\* ---------------------------------------------------------------- C13

\* C13 (as claimed): hours_received of every support request is 0 when the
\* request is created, is never negative, and never decreases in a step
\* (stated for the stores whose balances and hours_needed are in range).
C13_ReceivedMonotone ==
    [][EnteredAmountsInRange =>
          \A r \in DOMAIN requests' :
              /\ requests'[r].hours_received >= 0
              /\ IF r \in DOMAIN requests
                 THEN requests'[r].hours_received >= requests[r].hours_received
                 ELSE requests'[r].hours_received = 0]_vars

\* ---------------------------------------------------------------- C14

\* C14 (as claimed): no POST /api/donations increases the
\* available_pto_hours of any user (stated for the stores whose balances and
\* hours_needed are in range).
C14_DonationCreatesNoHours ==
    [][(EnteredAmountsInRange /\ res'.op = "donate") =>
          \A u \in DOMAIN users :
              users'[u].available_pto_hours <= users[u].available_pto_hours]_vars

\* ---------------------------------------------------------------- C15

\* C15: whatever the order in which concurrent donation calls are handled, a
\* donation row is inserted only in a step that starts with the request it
\* references present and active.
C15_RecordedWhileActive ==
    [][\A i \in NewDonations : Active(donations'[i].request_id)]_vars

\* two calls raced for a request that the first one fulfilled: the second
\* was answered 404 and no row was recorded for it
C15_Witness ==
    /\ AllDone
    /\ {calls[1].status, calls[2].status} = {201, 404}
    /\ Fulfilled(1)
    /\ Len(donations) = 1
    /\ requests[1].hours_received = requests[1].hours_needed

\* ---------------------------------------------------------------- C16

\* C16: a call answered 201 appends exactly one donation row (donor, request,
\* hours, message), subtracts hours from that donor's available_pto_hours,
\* adds hours to that request's hours_received, and leaves every other user,
\* every other request, and every other column of the two rows but the
\* request's status, as they were.
C16_SuccessEffect ==
    \A d \in UserIdInputs, r \in RequestIdInputs, h \in HoursInputs, m \in MessageInputs :
        LET out == Outcome(d, r, h, m, 0)
        IN  out.status = 201 =>
                /\ out.db.donations = Append(donations, [donor_id |-> d, request_id |-> r,
                                                         hours |-> h, message |-> m])
                /\ DOMAIN out.db.users = DOMAIN users
                /\ out.db.users[d] = [users[d] EXCEPT !.available_pto_hours = @ - h]
                /\ \A u \in DOMAIN users \ {d} : out.db.users[u] = users[u]
                /\ DOMAIN out.db.requests = DOMAIN requests
                /\ [out.db.requests[r] EXCEPT !.status = "active"]
                      = [requests[r] EXCEPT !.hours_received = @ + h]
                /\ \A q \in DOMAIN requests \ {r} : out.db.requests[q] = requests[q]

\* a donation succeeded while another user with hours to give and another
\* active request were in the store
C16_Witness ==
    /\ res.op = "donate" /\ res.status = 201
    /\ Len(donations) = 1
    /\ Cardinality(DOMAIN users) = 2
    /\ Cardinality(DOMAIN requests) = 2
    /\ users[3 - donations[1].donor_id].available_pto_hours = MaxHours
    /\ Active(3 - donations[1].request_id)
    /\ requests[3 - donations[1].request_id].hours_received = 0

\* ---------------------------------------------------------------- C17

\* C17: for a call that names a donor, a request and hours, a donor that is
\* missing or has available_pto_hours < hours is answered 400 'Insufficient
\* PTO hours available' whatever the request; 404 is answered exactly when
\* the donor check passes and the request is missing or not active, with
\* one and the same error text for both.
C17_DonorBeforeRequest ==
    \A d \in UserIdInputs, r \in RequestIdInputs, h \in HoursInputs,
       m \in MessageInputs, f \in 0..TxnSteps :
        (d # 0 /\ r # 0 /\ h # 0) =>
            LET out == Outcome(d, r, h, m, f)
                donorOk == d \in DOMAIN users /\ users[d].available_pto_hours >= h
            IN  /\ ~donorOk => /\ out.status = 400
                               /\ out.error = "Insufficient PTO hours available"
                               /\ out.db = DB
                /\ out.status = 404 <=> (donorOk /\ ~Active(r))
                /\ out.status = 404 => /\ out.error = "Support request not found or closed"
                                       /\ out.db = DB

\* a call was refused for the balance of its donor while the store held no
\* request at all, so the request it named was missing
C17_Witness ==
    /\ res.op = "donate" /\ res.error = "Insufficient PTO hours available"
    /\ requests = <<>>
    /\ DOMAIN users = {1, 2}
    /\ \A u \in DOMAIN users : users[u].available_pto_hours = 0

\* ---------------------------------------------------------------- C18

\* C18: a call in which donorId, requestId or hours is missing is answered
\* 400 'Missing required fields' whatever the store holds, and leaves the
\* store unchanged.
C18_MissingFields ==
    \A d \in UserIdInputs, r \in RequestIdInputs, h \in HoursInputs,
       m \in MessageInputs, f \in 0..TxnSteps :
        (d = 0 \/ r = 0 \/ h = 0) =>
            LET out == Outcome(d, r, h, m, f)
            IN  /\ out.status = 400
                /\ out.error = "Missing required fields"
                /\ out.db = DB

\* a call was refused for a missing field while a donor with hours and an
\* active request were in the store
C18_Witness ==
    /\ res.op = "donate" /\ res.error = "Missing required fields"
    /\ \E u \in DOMAIN users : users[u].available_pto_hours = MaxHours
    /\ \E r \in DOMAIN requests : Active(r) /\ requests[r].hours_needed = MaxHours
    /\ donations = <<>>

\* ---------------------------------------------------------------- C19

\* C19 (as claimed): a step that is not a POST /api/donations leaves the
\* available_pto_hours of every existing user as it was (stated for the
\* steps between stores whose balances and hours_needed are in range, where
\* it fails as well).
C19_BalanceWrittenByDonationOnly ==
    [][(res'.op # "donate" /\ EnteredAmountsInRange /\ EnteredAmountsInRange') =>
          \A u \in DOMAIN users :
              /\ u \in DOMAIN users'
              /\ users'[u].available_pto_hours = users[u].available_pto_hours]_vars

\* ---------------------------------------------------------------- C20

\* C20: no step removes a support request or changes its user_id or
\* hours_needed, and a step that is not a POST /api/donations leaves every
\* column of every existing support request as it was.
C20_RequestWrittenByDonationOnly ==
    [][\A r \in DOMAIN requests :
          /\ r \in DOMAIN requests'
          /\ requests'[r].hours_needed = requests[r].hours_needed
          /\ requests'[r].user_id = requests[r].user_id
          /\ res'.op # "donate" => requests'[r] = requests[r]]_vars

\* a request that has received part of its hours was in the store when
\* another request was created or a profile was updated
C20_Witness ==
    /\ res.op \in {"createRequest", "updateProfile"}
    /\ Cardinality(DOMAIN requests) = 2
    /\ Len(donations) = 1
    /\ requests[1].hours_needed = MaxHours
    /\ requests[1].hours_received = 1
    /\ Active(1)

\* ---------------------------------------------------------------- C21

\* C21 (as claimed): every support request in the store has
\* hours_needed >= 1 (stated for the stores that hold no negative balance,
\* where it fails as well).
C21_PositiveHoursNeeded ==
    (\A u \in DOMAIN users : users[u].available_pto_hours >= 0)
        => \A r \in DOMAIN requests : requests[r].hours_needed >= 1

\* ---------------------------------------------------------------- C23

\* C23: a donation to an active request of more hours than the request still
\* needs, by a donor whose balance covers them, is answered 201, adds all of
\* its hours to hours_received, takes all of them from the donor, and leaves
\* the request fulfilled with hours_received > hours_needed.
C23_OverfundingAllowed ==
    \A d \in DOMAIN users, r \in DOMAIN requests, h \in 1..MaxHours, m \in MessageInputs :
        (/\ Active(r)
         /\ users[d].available_pto_hours >= h
         /\ h > requests[r].hours_needed - requests[r].hours_received) =>
            LET out == Outcome(d, r, h, m, 0)
            IN  /\ out.status = 201
                /\ out.db.requests[r].hours_received = requests[r].hours_received + h
                /\ out.db.requests[r].hours_received > requests[r].hours_needed
                /\ out.db.requests[r].status = "fulfilled"
                /\ out.db.users[d].available_pto_hours = users[d].available_pto_hours - h
                /\ Len(out.db.donations) = Len(donations) + 1
                /\ out.db.donations[Len(donations) + 1].hours = h

\* a request needing MaxHours had received one hour less, and a donation of
\* MaxHours to it succeeded
C23_Witness ==
    /\ res.op = "donate" /\ res.status = 201
    /\ \E r \in DOMAIN requests :
          /\ requests[r].hours_needed = MaxHours
          /\ requests[r].hours_received = 2 * MaxHours - 1
          /\ Fulfilled(r)
          /\ Len(DonationsOn(donations, r)) = 2
          /\ DonationsOn(donations, r)[1].hours = MaxHours - 1
          /\ DonationsOn(donations, r)[2].hours = MaxHours
    /\ \A u \in DOMAIN users : users[u].available_pto_hours >= 0

\* ------------------------------------------------- company administration

\* The routes of the company administrator next to the ledger routes.  Here
\* a companies row carries name and allow_cross_company, and a users row
\* carries is_company_admin as well.  Every handler below is synchronous.
MaxAdminCompanies == 2
MaxAdminUsers == 2

CompanyNameInputs == 0..MaxAdminCompanies
AdminCompanyIdInputs == 0..MaxAdminCompanies
AdminUserIdInputs == 0..MaxAdminUsers
\* a checkbox of the body, or removeFromCompany === 'true'
FlagInputs == {FALSE, TRUE}
\* ptoHours and available_pto_hours as the administrator enters them
AdminHoursInputs == {1}

\* flag ? 1 : 0
Bit(flag) == IF flag THEN 1 ELSE 0

Employee(company_id, is_company_admin, available_pto_hours) ==
    [company_id |-> company_id, is_company_admin |-> is_company_admin,
     available_pto_hours |-> available_pto_hours]

\* POST /api/companies
createCompany(db, name, allowCrossCompany) ==
    IF Falsy(name)
    THEN Response(400, "Company name is required", db)
    ELSE IF \E c \in DOMAIN db.companies : db.companies[c].name = name
    THEN Response(400, "Company already exists", db)
    ELSE Response(201, "Company created",
                  [db EXCEPT !.companies = Extend(@, NextId(@),
                          [name |-> name, allow_cross_company |-> Bit(allowCrossCompany)])])

\* FOREIGN KEY (company_id) REFERENCES companies(id) holds for the value
CompanyKeyOk(db, company_id) == company_id = Null \/ company_id \in DOMAIN db.companies

\* the mutant of BelongsTo: the company of the path is not compared
BelongsToAny(db, userId, companyId) == userId \in DOMAIN db.users

\* lines 228-229 and 272-273: the user row is found and its company_id is the
\* companyId of the path (NULL equals no companyId)
BelongsTo(db, userId, companyId) ==
    /\ userId \in DOMAIN db.users
    /\ db.users[userId].company_id # Null
    /\ db.users[userId].company_id = companyId

\* PUT /api/companies/:companyId/employees/:userId; a field of the body is
\* a set, {} when absent
updateEmployee(db, companyId, userId, company_id, available_pto_hours, is_company_admin) ==
    IF ~BelongsTo(db, userId, companyId)
    THEN Response(403, "User does not belong to this company", db)
    ELSE IF \E c \in company_id : ~CompanyKeyOk(db, c)
    THEN Response(500, "Failed to update employee", db)
    ELSE Response(200, "Employee updated",
                  [db EXCEPT !.users[userId] =
                      Employee(IF company_id = {} THEN @.company_id
                               ELSE CHOOSE c \in company_id : TRUE,
                               IF is_company_admin = {} THEN @.is_company_admin
                               ELSE Bit(CHOOSE a \in is_company_admin : TRUE),
                               IF available_pto_hours = {} THEN @.available_pto_hours
                               ELSE CHOOSE h \in available_pto_hours : TRUE)])

\* SELECT COUNT(*) FROM users WHERE company_id = ? AND is_company_admin = 1
adminCount(db, companyId) ==
    Cardinality({u \in DOMAIN db.users :
                    db.users[u].company_id = companyId /\ db.users[u].is_company_admin = 1})

\* the mutant of OnlyAdmin: the administrators are not counted
OnlyAdminNever(db, userId, companyId) == FALSE

\* lines 278-283
OnlyAdmin(db, userId, companyId) ==
    db.users[userId].is_company_admin = 1 /\ adminCount(db, companyId) <= 1

\* a donation or a support request references the user
Referenced(db, userId) ==
    \/ \E i \in DOMAIN db.donations : db.donations[i].donor_id = userId
    \/ \E r \in DOMAIN db.requests : db.requests[r].user_id = userId

Without(table, id) == [i \in DOMAIN table \ {id} |-> table[i]]

\* the mutant of deleteUser: foreign keys are not enforced
deleteUserUnchecked(db, userId) ==
    Response(200, "Employee deleted", [db EXCEPT !.users = Without(@, userId)])

\* the mutant of deleteUser: the rows that reference the user go with it
deleteUserCascade(db, userId) ==
    Response(200, "Employee deleted",
             [db EXCEPT !.users = Without(@, userId),
                        !.donations = SelectSeq(@, LAMBDA d : d.donor_id # userId)])

\* DELETE FROM users WHERE id = ?: the statement throws when a donations or
\* support_requests row references the user (foreign keys are enforced and
\* declare no ON DELETE action), and the catch answers 500
deleteUser(db, userId) ==
    IF Referenced(db, userId)
    THEN Response(500, "Failed to remove employee", db)
    ELSE Response(200, "Employee deleted", [db EXCEPT !.users = Without(@, userId)])

\* DELETE /api/companies/:companyId/employees/:userId
removeEmployee(db, companyId, userId, removeFromCompany) ==
    IF ~BelongsTo(db, userId, companyId)
    THEN Response(403, "User does not belong to this company", db)
    ELSE IF OnlyAdmin(db, userId, companyId)
    THEN Response(400, "Cannot remove the only company admin", db)
    ELSE IF removeFromCompany
    THEN Response(200, "Employee removed from company",
                  [db EXCEPT !.users[userId].company_id = Null,
                             !.users[userId].is_company_admin = 0])
    ELSE deleteUser(db, userId)

CreateCompany(name, allowCrossCompany) ==
    LET r == createCompany(DB, name, allowCrossCompany)
    IN  /\ companies' = r.db.companies
        /\ users' = r.db.users
        /\ requests' = r.db.requests
        /\ donations' = r.db.donations
        /\ res' = Responded("createCompany", r.status, r.error)
        /\ UNCHANGED <<userSeq, calls, running>>

UpdateEmployee(companyId, userId, company_id, available_pto_hours, is_company_admin) ==
    LET r == updateEmployee(DB, companyId, userId, company_id, available_pto_hours,
                            is_company_admin)
    IN  /\ companies' = r.db.companies
        /\ users' = r.db.users
        /\ requests' = r.db.requests
        /\ donations' = r.db.donations
        /\ res' = Responded("updateEmployee", r.status, r.error)
        /\ UNCHANGED <<userSeq, calls, running>>

RemoveEmployee(companyId, userId, removeFromCompany) ==
    LET r == removeEmployee(DB, companyId, userId, removeFromCompany)
    IN  /\ companies' = r.db.companies
        /\ users' = r.db.users
        /\ requests' = r.db.requests
        /\ donations' = r.db.donations
        /\ res' = Responded("removeEmployee", r.status, r.error)
        /\ UNCHANGED <<userSeq, calls, running>>

\* POST /api/register with a registrationType other than 'company', all
\* required fields, and an email and username no user has
RegisterEmployee(ptoHours, companyId, isCompanyAdmin) ==
    /\ userSeq < MaxAdminUsers
    /\ CompanyKeyOk(DB, OrElse(companyId, Null))
    /\ users' = Extend(users, userSeq + 1,
                       Employee(OrElse(companyId, Null), Bit(isCompanyAdmin), OrElse(ptoHours, 0)))
    /\ userSeq' = userSeq + 1
    /\ res' = Responded("register", 201, "Registration successful")
    /\ UNCHANGED <<companies, requests, donations, calls, running>>

\* POST /api/requests while the store holds no support request
CreateFirstRequest(userId, hoursNeeded) ==
    /\ requests = <<>>
    /\ CreateRequest(userId, hoursNeeded)

\* the bodies of the employee update: one column each
UpdateBodies ==
    {<<{c}, {}, {}>> : c \in AdminCompanyIdInputs}
        \cup {<<{}, {h}, {}>> : h \in AdminHoursInputs}
        \cup {<<{}, {}, {a}>> : a \in FlagInputs}
        \cup {<<{}, {}, {}>>}

\* One support request is created, by the first user, and the donations are
\* of one hour to it.
NextAdmin ==
    \/ \E n \in CompanyNameInputs, a \in FlagInputs : CreateCompany(n, a)
    \/ \E p \in AdminHoursInputs, c \in AdminCompanyIdInputs, a \in FlagInputs :
          RegisterEmployee(p, c, a)
    \/ \E c \in AdminCompanyIdInputs, u \in AdminUserIdInputs, b \in UpdateBodies :
          UpdateEmployee(c, u, b[1], b[2], b[3])
    \/ \E c \in AdminCompanyIdInputs, u \in AdminUserIdInputs, f \in FlagInputs :
          RemoveEmployee(c, u, f)
    \/ \E u \in OwnerInputs : CreateFirstRequest(u, 1)
    \/ \E d \in AdminUserIdInputs, r \in RequestIdInputs : Donate(d, r, 1, 0)

SpecAdmin == Init /\ [][NextAdmin]_vars

\* ---------------------------------------------------------------- C22

\* C22: under every sequence of operations, the removal of employees
\* included, each step keeps every donation row where and as it was; rows
\* are only added, at the end.
C22_DonationsAppendOnly ==
    [][/\ Len(donations') >= Len(donations)
       /\ SubSeq(donations', 1, Len(donations)) = donations]_vars

\* an employee was deleted while the store held a donation
C22_Witness ==
    /\ res.op = "removeEmployee" /\ res.error = "Employee deleted"
    /\ Len(donations) = 1
    /\ Cardinality(DOMAIN users) = 1

\* ---------------------------------------------------------------- C24

SetCompany(db, userId, company_id) ==
    IF userId \in DOMAIN db.users
    THEN [db EXCEPT !.users[userId].company_id = company_id]
    ELSE db

SetFlags(db, flags) ==
    [db EXCEPT !.companies =
        [c \in DOMAIN db.companies |-> [db.companies[c] EXCEPT !.allow_cross_company = flags[c]]]]

\* the store db with other company data: the donor in company from, the
\* owner of the request in company to, and the companies' flags as given
OtherCompanyData(db, donorId, from, ownerId, to, flags) ==
    SetFlags(SetCompany(SetCompany(db, donorId, from), ownerId, to), flags)

OwnerOf(requestId) ==
    IF requestId \in DOMAIN requests THEN requests[requestId].user_id ELSE 0

\* C24: a donation call answers the same, and changes balances, requests and
\* donations the same way, in every two stores that differ only in the
\* donor's company, the company of the request's owner, and the
\* allow_cross_company flags of the companies.
C24_CompanyDataIgnored ==
    \A d \in AdminUserIdInputs, r \in RequestIdInputs, h \in {1, MaxHours} :
        LET one == recordDonation(DB, d, r, h, 0, 0)
        IN  \A from \in {Null} \cup DOMAIN companies, to \in {Null} \cup DOMAIN companies,
               flags \in [DOMAIN companies -> {0, 1}] :
                LET two == recordDonation(OtherCompanyData(DB, d, from, OwnerOf(r), to, flags),
                                          d, r, h, 0, 0)
                IN  /\ two.status = one.status
                    /\ two.error = one.error
                    /\ two.db = OtherCompanyData(one.db, d, from, OwnerOf(r), to, flags)

\* a donor of one company gave to a request of another company, neither of
\* which allows cross-company donations
C24_Witness ==
    /\ res.op = "donate" /\ res.status = 201
    /\ Len(donations) = 1
    /\ donations[1].donor_id = 2
    /\ users[2].company_id = 2
    /\ users[OwnerOf(donations[1].request_id)].company_id = 1
    /\ \A c \in DOMAIN companies : companies[c].allow_cross_company = 0

\* ---------------------------------------------------------------- C25

\* C25: the removal of a user who is the only administrator of the company
\* addressed is answered 400 and changes nothing, with removeFromCompany and
\* without; so no removal takes the last administrator from a company.
C25_LastAdminProtected ==
    /\ [](\A c \in DOMAIN companies, u \in DOMAIN users, f \in FlagInputs :
             (/\ users[u].company_id = c
              /\ users[u].is_company_admin = 1
              /\ adminCount(DB, c) = 1) =>
                 /\ removeEmployee(DB, c, u, f).status = 400
                 /\ removeEmployee(DB, c, u, f).db = DB)
    /\ [][res'.op = "removeEmployee" =>
             \A c \in DOMAIN companies : adminCount(DB, c) >= 1 => adminCount(DB', c) >= 1]_vars

\* the removal of the only administrator of a company with another employee
\* was refused
C25_Witness ==
    /\ res.op = "removeEmployee" /\ res.status = 400
    /\ DOMAIN users = {1, 2}
    /\ users[1].company_id = 1 /\ users[1].is_company_admin = 1
    /\ users[2].company_id = 1 /\ users[2].is_company_admin = 0

\* ---------------------------------------------------------------- C26

\* C26: an employee update or removal addressed to company c and user u is
\* answered 403 and changes nothing when u does not exist or the company_id
\* of u is not c.
C26_CompanyScoping ==
    \A c \in AdminCompanyIdInputs, u \in AdminUserIdInputs, b \in UpdateBodies, f \in FlagInputs :
        (u \notin DOMAIN users \/ users[u].company_id # c) =>
            /\ updateEmployee(DB, c, u, b[1], b[2], b[3]).status = 403
            /\ updateEmployee(DB, c, u, b[1], b[2], b[3]).db = DB
            /\ removeEmployee(DB, c, u, f).status = 403
            /\ removeEmployee(DB, c, u, f).db = DB

\* with two companies and every user in the first, a removal was refused
\* with 403
C26_Witness ==
    /\ res.op = "removeEmployee" /\ res.status = 403
    /\ DOMAIN companies = {1, 2}
    /\ DOMAIN users = {1, 2}
    /\ \A u \in DOMAIN users : users[u].company_id = 1 /\ users[u].is_company_admin = 0

\* ---------------------------------------------------------------- C28

\* C28: in every reachable state, after the deletion of users too, every
\* donation row references a user and a support request that exist, and
\* every support request references a user that exists.
C28_ReferentialIntegrity ==
    /\ \A i \in DOMAIN donations :
          /\ donations[i].donor_id \in DOMAIN users
          /\ donations[i].request_id \in DOMAIN requests
    /\ \A r \in DOMAIN requests : requests[r].user_id \in DOMAIN users

\* the deletion of a user who has made a donation was refused
C28_Witness ==
    /\ res.op = "removeEmployee" /\ res.status = 500
    /\ Len(donations) = 1
    /\ donations[1].donor_id = 2
    /\ DOMAIN users = {1, 2}

\* ------------------------------------------ concurrent POST /api/register

\* Two registrations are in flight at once.  The handler is async: it runs
\* from its first line to `await bcrypt.hash` (line 469) in one piece, yields,
\* and runs from there to its response in one piece.  The statements after
\* the await are not wrapped in db.transaction.
MaxRegNames == 2
MaxRegCompanies == 2

RegEmailInputs == 0..MaxRegNames
RegUsernameInputs == 1..MaxRegNames
RegCompanyNameInputs == 0..MaxRegCompanies
RegistrationTypes == {"company", "employee"}

\* the users row of lines 487-499; the body names no companyId and no ptoHours
Account(email, username, company_id, is_company_admin) ==
    [email |-> email, username |-> username, company_id |-> company_id,
     is_company_admin |-> is_company_admin, available_pto_hours |-> 0]

\* SELECT id FROM users WHERE email = ? OR username = ?, and the two UNIQUE
\* columns of the table
existingUser(db, email, username) ==
    \E u \in DOMAIN db.users : db.users[u].email = email \/ db.users[u].username = username

\* SELECT id FROM companies WHERE name = ?
existingCompany(db, companyName) ==
    \E k \in DOMAIN db.companies : db.companies[k].name = companyName

\* lines 458-466: 0 when the handler goes on to the hash
registerChecks(db, email, username) ==
    IF Falsy(email) \/ Falsy(username)
    THEN Response(400, "All fields are required", db)
    ELSE IF existingUser(db, email, username)
    THEN Response(400, "User with this email or username already exists", db)
    ELSE Response(0, "", db)

\* lines 471-530: what follows the hash.  The INSERT of the company is
\* committed on its own; an INSERT of the user that breaks UNIQUE(email) or
\* UNIQUE(username) throws into the catch of line 527, which undoes nothing.
registerAfterHash(db, seq, email, username, companyName, registrationType) ==
    LET createsCompany == registrationType = "company" /\ ~Falsy(companyName)
        withCompany == IF createsCompany
                       THEN [db EXCEPT !.companies = Extend(@, NextId(@),
                                [name |-> companyName, allow_cross_company |-> 0])]
                       ELSE db
        finalCompanyId == IF createsCompany THEN NextId(db.companies) ELSE Null
        isAdmin == IF registrationType = "company" THEN 1 ELSE 0
    IN  IF createsCompany /\ existingCompany(db, companyName)
        THEN Response(400, "Company already exists. Please join as an employee or contact your admin.", db)
        ELSE IF existingUser(withCompany, email, username)
        THEN Response(500, "Registration failed", withCompany)
        ELSE Response(201, "Registration successful",
                      [withCompany EXCEPT !.users = Extend(@, seq + 1,
                            Account(email, username, finalCompanyId, isAdmin))])

InitRegister ==
    /\ companies = <<>>
    /\ users = <<>>
    /\ requests = <<>>
    /\ donations = <<>>
    /\ userSeq = 0
    /\ res = Responded("none", 0, "")
    /\ calls \in [CallIds -> [email : RegEmailInputs, username : RegUsernameInputs,
                              companyName : RegCompanyNameInputs,
                              registrationType : RegistrationTypes,
                              pc : {"pending"}, status : {0}]]
    /\ running = 0

\* the handler up to the await of line 469
RegCheck(c) ==
    /\ calls[c].pc = "pending"
    /\ LET pre == registerChecks(DB, calls[c].email, calls[c].username)
       IN  IF pre.status # 0
           THEN calls' = [calls EXCEPT ![c].pc = "done", ![c].status = pre.status]
           ELSE calls' = [calls EXCEPT ![c].pc = "hashing"]
    /\ UNCHANGED <<companies, users, requests, donations, userSeq, res, running>>

\* the handler from the await to its response
RegFinish(c) ==
    /\ calls[c].pc = "hashing"
    /\ LET r == registerAfterHash(DB, userSeq, calls[c].email, calls[c].username,
                                  calls[c].companyName, calls[c].registrationType)
       IN  /\ companies' = r.db.companies
           /\ users' = r.db.users
           /\ userSeq' = IF r.status = 201 THEN userSeq + 1 ELSE userSeq
           /\ calls' = [calls EXCEPT ![c].pc = "done", ![c].status = r.status]
    /\ UNCHANGED <<requests, donations, res, running>>

NextRegister ==
    \/ \E c \in CallIds : RegCheck(c)
    \/ \E c \in CallIds : RegFinish(c)

SpecRegister == InitRegister /\ [][NextRegister]_vars

\* ---------------------------------------------------------------- C27

\* C27: a 'company' registration stores the company and its admin user or
\* neither: a step in which a registration ends with an error adds no
\* company, and every stored company has an administrator among the users.
C27_AllOrNothing ==
    [][/\ \A c \in CallIds :
             (calls[c].pc # "done" /\ calls'[c].pc = "done" /\ calls'[c].status # 201)
                 => companies' = companies
       /\ \A k \in DOMAIN companies' :
             \E u \in DOMAIN users' : /\ users'[u].company_id = k
                                      /\ users'[u].is_company_admin = 1]_vars
====
